---- MODULE Spec2Model ----
(***************************************************************************)
(* The GDP-per-capita dashboard of src/app.py as a state machine.          *)
(*                                                                         *)
(* The module-level statements of app.py run once, top to bottom: the CSV  *)
(* is read, every year column is cleaned with value_to_int, the default    *)
(* countries and the default year window are drawn, the controls and the   *)
(* first figure are built.  An exception anywhere stops the import, so the *)
(* callback is never registered and the server never starts.  After that   *)
(* the only thing that runs is update_graph, once per control change.      *)
(*                                                                         *)
(* A cell is a record [t, n, s]:                                           *)
(*   t = "int"    a Python int n                                           *)
(*   t = "float"  a Python float, integer part n, fractional digits s      *)
(*   t = "str"    a Python str, its characters s                           *)
(* A frame is a record [country, columns, values]: the country column, the *)
(* year labels of the year columns, and one row of cells per country.      *)
(* Position 0 of a frame's columns is the country column, position i >= 1  *)
(* is the i-th year column.                                                *)
(***************************************************************************)
EXTENDS Integers, Sequences, FiniteSets, TLC

VARIABLES
    raw,                 \* the content of gdp_pcap.csv: a frame of texts
    df,                  \* module global df
    col,                 \* position of the column the cleaning loop is at
    pc,                  \* the module-level statement that runs next
    error,               \* the exception that stopped the import, or "none"
    starting_countries,  \* module global starting_countries
    years,               \* module global years
    start,               \* module global start
    end,                 \* module global end
    country,             \* value of the dropdown 'country'
    year,                \* value of the range slider 'year'
    mini_df,             \* module global mini_df
    fig_line_marker,     \* module global fig_line_marker
    cb_mini_df,          \* mini_df local to the last update_graph call
    graph,               \* figure property of the dcc.Graph 'graph'
    called               \* whether update_graph has run

vars == <<raw, df, col, pc, error, starting_countries, years, start, end,
          country, year, mini_df, fig_line_marker, cb_mini_df, graph,
          called>>

----------------------------------------------------------------------------
(* Bounds of the model *)

MaxYears == 4          \* a table has 1..MaxYears year columns
FirstYear == 2000      \* label of the first year column
Slack == 1             \* a requested year lies at most Slack outside the table
MaxSel == 2            \* countries in one selection made by the user

SampleSize == 5        \* countries.sample(5)

----------------------------------------------------------------------------
(* Python built-ins used by app.py *)

Min(a, b) == IF a < b THEN a ELSE b
Max(a, b) == IF a > b THEN a ELSE b

Range(seq) == {seq[i] : i \in 1..Len(seq)}

Digits == <<"0", "1", "2", "3", "4", "5", "6", "7", "8", "9">>
IsDigit(ch) == \E i \in 1..10 : Digits[i] = ch
DigitVal(ch) == (CHOOSE i \in 1..10 : Digits[i] = ch) - 1

\* int(s) raises ValueError unless s is a non-empty run of digits
IntOk(s) == Len(s) > 0 /\ \A i \in 1..Len(s) : IsDigit(s[i])

RECURSIVE IntOf(_)
IntOf(s) == IF Len(s) = 0 THEN 0
            ELSE 10 * IntOf(SubSeq(s, 1, Len(s) - 1)) + DigitVal(s[Len(s)])

\* ch in s
Contains(s, ch) == \E i \in 1..Len(s) : s[i] = ch

\* s.replace(ch, '')
RECURSIVE Remove(_, _)
Remove(s, ch) == IF Len(s) = 0 THEN <<>>
                 ELSE IF s[1] = ch THEN Remove(Tail(s), ch)
                 ELSE <<s[1]>> \o Remove(Tail(s), ch)

\* s.split(ch): the pieces between the occurrences of ch
RECURSIVE Split(_, _)
Split(s, ch) ==
    IF ~Contains(s, ch) THEN <<s>>
    ELSE LET i == CHOOSE j \in 1..Len(s) :
                      s[j] = ch /\ \A k \in 1..(j - 1) : s[k] # ch
         IN  <<SubSeq(s, 1, i - 1)>> \o Split(SubSeq(s, i + 1, Len(s)), ch)

\* seq[a:b], positions counted from 0, negative positions from the end
PySlice(seq, a, b) ==
    LET L == Len(seq)
        lo == IF a < 0 THEN Max(a + L, 0) ELSE Min(a, L)
        hi == IF b < 0 THEN Max(b + L, 0) ELSE Min(b, L)
    IN  SubSeq(seq, lo + 1, hi)

\* math.floor(a / b) for a >= 0, b > 0
Floor(a, b) == a \div b

IntCell(n) == [t |-> "int", n |-> n, s |-> <<>>]
FloatCell(n, frac) == [t |-> "float", n |-> n, s |-> frac]
StrCell(s) == [t |-> "str", n |-> 0, s |-> s]

----------------------------------------------------------------------------
(* pd.read_csv: every column gets one dtype *)

\* text the C parser reads as an integer
IsIntText(s) == IntOk(s)

\* text the C parser reads as a float: digits around exactly one point
IsFloatText(s) ==
    /\ Cardinality({i \in 1..Len(s) : s[i] = "."}) = 1
    /\ \A i \in 1..Len(s) : s[i] = "." \/ IsDigit(s[i])
    /\ \E i \in 1..Len(s) : IsDigit(s[i])

RECURSIVE StripZeros(_)
StripZeros(s) == IF Len(s) > 0 /\ s[Len(s)] = "0"
                 THEN StripZeros(SubSeq(s, 1, Len(s) - 1))
                 ELSE s

FloatOfText(s) ==
    IF IsIntText(s) THEN FloatCell(IntOf(s), <<>>)
    ELSE LET parts == Split(s, ".")
         IN  FloatCell(IntOf(parts[1]), StripZeros(parts[2]))

Column(frame, j) == [r \in 1..Len(frame.values) |-> frame.values[r][j]]

SetColumn(frame, j, cells) ==
    [frame EXCEPT !.values =
        [r \in 1..Len(frame.values) |-> [frame.values[r] EXCEPT ![j] = cells[r]]]]

\* int64 when every text is an integer, float64 when every text is a number,
\* object (the texts themselves) otherwise
ReadColumn(texts) ==
    IF \A r \in 1..Len(texts) : IsIntText(texts[r])
    THEN [r \in 1..Len(texts) |-> IntCell(IntOf(texts[r]))]
    ELSE IF \A r \in 1..Len(texts) : IsIntText(texts[r]) \/ IsFloatText(texts[r])
    THEN [r \in 1..Len(texts) |-> FloatOfText(texts[r])]
    ELSE [r \in 1..Len(texts) |-> StrCell(texts[r])]

ReadCsv(file) ==
    [country |-> file.country,
     columns |-> file.columns,
     values  |-> [r \in 1..Len(file.values) |->
                    [j \in 1..Len(file.columns) |-> ReadColumn(Column(file, j))[r]]]]

----------------------------------------------------------------------------
(* Data cleaning *)

Returned(cell) == [ok |-> TRUE, err |-> "none", val |-> cell]
Raised(name) == [ok |-> FALSE, err |-> name, val |-> IntCell(0)]

IntOrRaise(s, n) == IF IntOk(s) THEN Returned(IntCell(n)) ELSE Raised("ValueError")

value_to_int(x) ==
    IF x.t = "int" THEN Returned(x)
    ELSE IF x.t # "str" THEN Raised("TypeError")     \* 'k' in x, x a float
    ELSE IF Contains(x.s, "k") THEN
        IF Contains(x.s, ".") THEN
            LET vals == Split(Remove(x.s, "k"), ".")
            IN  IF IntOk(vals[1]) /\ IntOk(vals[2])
                THEN Returned(IntCell(IntOf(vals[1]) * 1000 + IntOf(vals[2]) * 100))
                ELSE Raised("ValueError")
        ELSE IF Len(x.s) > 1 THEN
            LET stripped == Remove(x.s, "k")
            IN  IntOrRaise(stripped, IntOf(stripped) * 1000)
        ELSE Returned(FloatCell(1000, <<>>))
    ELSE IntOrRaise(x.s, IntOf(x.s))

\* the dtype Series.apply gives its result: float64 as soon as one result
\* is a float, int64 otherwise
InferDtype(cells) ==
    IF \E r \in 1..Len(cells) : cells[r].t = "float"
    THEN [r \in 1..Len(cells) |->
            IF cells[r].t = "int" THEN FloatCell(cells[r].n, <<>>) ELSE cells[r]]
    ELSE cells

\* df[col] = df[col].apply(value_to_int): the first cell that raises stops
\* the statement and df[col] is not assigned
normalize_column(d, j) ==
    LET cells == Column(d, j)
        res   == [r \in 1..Len(cells) |-> value_to_int(cells[r])]
        bad   == {r \in 1..Len(cells) : ~res[r].ok}
    IN  IF bad = {}
        THEN [ok |-> TRUE, err |-> "none",
              df |-> SetColumn(d, j, InferDtype([r \in 1..Len(cells) |-> res[r].val]))]
        ELSE [ok |-> FALSE,
              err |-> res[CHOOSE r \in bad : \A q \in bad : r <= q].err,
              df |-> d]

\* the whole loop of lines 33-34 from column j on
RECURSIVE normalize_from(_, _)
normalize_from(d, j) ==
    IF j > Len(d.columns) THEN [ok |-> TRUE, err |-> "none", df |-> d]
    ELSE LET one == normalize_column(d, j)
         IN  IF one.ok THEN normalize_from(one.df, j + 1) ELSE one

----------------------------------------------------------------------------
(* Frames *)

\* the elements of seq at the indices in S, in order
RECURSIVE KeepAt(_, _)
KeepAt(seq, S) ==
    IF Len(seq) = 0 THEN <<>>
    ELSE KeepAt(SubSeq(seq, 1, Len(seq) - 1), S)
            \o (IF Len(seq) \in S THEN <<seq[Len(seq)]>> ELSE <<>>)

\* frame.columns as positions: 0 the country column, then the year columns
Positions(frame) == [i \in 1..(Len(frame.columns) + 1) |-> i - 1]

\* frame.drop(labels, axis=1), the labels given by their positions; the
\* slices of app.py start at position 1 or later, so the country column stays
drop(frame, dropped) ==
    LET keep == {i \in 1..Len(frame.columns) : i \notin Range(dropped)}
    IN  [country |-> frame.country,
         columns |-> KeepAt(frame.columns, keep),
         values  |-> [r \in 1..Len(frame.values) |-> KeepAt(frame.values[r], keep)]]

\* df.loc[df['country'].isin(selected)]: a new frame, rows in table order
loc_isin(d, selected) ==
    LET keep == {r \in 1..Len(d.country) : d.country[r] \in Range(selected)}
    IN  [country |-> KeepAt(d.country, keep),
         columns |-> d.columns,
         values  |-> KeepAt(d.values, keep)]

\* pd.melt(frame, id_vars=['country'], var_name='year') with the numeric
\* coercions and the rename: one record per cell, the year columns one
\* after the other, each with the rows in frame order
melt_by_country(frame) ==
    LET R == Len(frame.country)
        Y == Len(frame.columns)
        value == InferDtype([k \in 1..(R * Y) |->
                    frame.values[((k - 1) \div Y) + 1][((k - 1) % Y) + 1]])
    IN  [k \in 1..(R * Y) |->
            [country  |-> frame.country[((k - 1) \div Y) + 1],
             year     |-> frame.columns[((k - 1) % Y) + 1],
             gdp_pcap |-> value[k]]]

melt(frame) ==
    LET R == Len(frame.country)
        Y == Len(frame.columns)
        value == InferDtype([k \in 1..(R * Y) |->
                    frame.values[((k - 1) % R) + 1][((k - 1) \div R) + 1]])
    IN  [k \in 1..(R * Y) |->
            [country  |-> frame.country[((k - 1) % R) + 1],
             year     |-> frame.columns[((k - 1) \div R) + 1],
             gdp_pcap |-> value[k]]]

EmptyFrame == [country |-> <<>>, columns |-> <<>>, values |-> <<>>]

----------------------------------------------------------------------------
(* The first figure, built while the module is imported *)

initial_mini_df_short(d, starting, s, e) ==
    LET rows  == loc_isin(d, starting)
        front == drop(rows, PySlice(Positions(rows), 1, s + 1))
    IN  drop(front, PySlice(Positions(front), e - s + 1, Len(front.columns) + 2))

initial_mini_df(d, starting, s, e) ==
    LET rows  == loc_isin(d, starting)
        front == drop(rows, PySlice(Positions(rows), 1, s + 1))
    IN  drop(front, PySlice(Positions(front), e - s + 2, Len(front.columns) + 2))

----------------------------------------------------------------------------
(* The callback *)

update_graph_mini_df_short(d, yrs, selected_countries, selected_years) ==
    LET rows  == loc_isin(d, selected_countries)
        small == selected_years[1] - yrs[1]
        big   == selected_years[2] - yrs[1]
        front == drop(rows, PySlice(Positions(rows), 1, small + 1))
    IN  drop(front, PySlice(Positions(front), big - small + 1, Len(front.columns) + 2))

update_graph_mini_df(d, yrs, selected_countries, selected_years) ==
    LET rows  == loc_isin(d, selected_countries)
        small == selected_years[1] - yrs[1]
        big   == selected_years[2] - yrs[1]
        front == drop(rows, PySlice(Positions(rows), 1, small + 1))
    IN  drop(front, PySlice(Positions(front), big - small + 2, Len(front.columns) + 2))

update_graph_inplace(d, yrs, selected_countries, selected_years) ==
    LET m == update_graph_mini_df(d, yrs, selected_countries, selected_years)
    IN  [df |-> m, mini_df |-> m, figure |-> melt(m)]

\* what a call leaves in module global df, its local mini_df and the figure
\* it returns (the px.line figure is given by the records it plots)
update_graph(d, yrs, selected_countries, selected_years) ==
    LET m == update_graph_mini_df(d, yrs, selected_countries, selected_years)
    IN  [df |-> d, mini_df |-> m, figure |-> melt(m)]

Output_patch(old, returned) == old \o returned

\* Output('graph', 'figure'): the returned figure becomes the property
Output(old, returned) == returned

----------------------------------------------------------------------------
(* The CSV files the model starts from *)

CountryNames == <<"Andorra", "Brazil", "Chad", "Denmark", "Egypt", "Fiji", "Ghana">>
Unknown == "Narnia"

\* the texts one cell of the file takes besides plain two-digit integers
SpecialCells ==
    { <<"k">>,
      <<"5", "k">>,
      <<"2", ".", "9", "k">>,
      <<"2", ".", "9", "0", "k">>,
      <<"2", ".", "9", "5", "k">>,
      <<"1", ".", "5">>,
      <<"x">> }

\* nC countries, the years FirstYear.., the cell of row r and column j the
\* text "rj", but for the last cell of the first row, which holds special
Table(nC, n, special) ==
    [country |-> SubSeq(CountryNames, 1, nC),
     columns |-> [j \in 1..n |-> FirstYear + j - 1],
     values  |-> [r \in 1..nC |-> [j \in 1..n |->
                    IF r = 1 /\ j = n THEN special
                    ELSE <<Digits[r + 1], Digits[j + 1]>>]]]

\* a table has as many rows as the sample takes, one fewer or one more
RowCounts == {SampleSize - 1, SampleSize, SampleSize + 1}

\* the tables whose row count differs from the sample size have one year
RawTables ==
    {Table(shape[1], shape[2], special) :
        shape \in {s \in RowCounts \X (1..MaxYears) : s[1] = SampleSize \/ s[2] = 1},
        special \in SpecialCells}

\* the values the host can hand to the callback: selections over the first
\* country, the last country and a country that is not in the table
Pool(d) == {d.country[1], d.country[Len(d.country)], Unknown}

Selections(d) ==
    {sel \in UNION {[1..k -> Pool(d)] : k \in 0..MaxSel} :
        \A i, j \in 1..Len(sel) : sel[i] = sel[j] => i = j}

\* one handle of the slider moves and the handles do not cross; a request
\* can carry years up to Slack outside the slider's range
YearRanges(yrs, current) ==
    LET offered == (yrs[1] - Slack)..(yrs[Len(yrs)] + Slack)
    IN  {p \in offered \X offered :
            p[1] <= p[2] /\ (p[1] = current[1] \/ p[2] = current[2])}

----------------------------------------------------------------------------
(* The program *)

Init ==
    /\ raw \in RawTables
    /\ df = EmptyFrame
    /\ col = 1
    /\ pc = "read_csv"
    /\ error = "none"
    /\ starting_countries = <<>>
    /\ years = <<>>
    /\ start = 0
    /\ end = 0
    /\ country = <<>>
    /\ year = <<>>
    /\ mini_df = EmptyFrame
    /\ fig_line_marker = <<>>
    /\ cb_mini_df = EmptyFrame
    /\ graph = <<>>
    /\ called = FALSE

\* line 14
read_csv ==
    /\ pc = "read_csv"
    /\ df' = ReadCsv(raw)
    /\ pc' = "normalize"
    /\ UNCHANGED <<raw, col, error, starting_countries, years, start, end,
                   country, year, mini_df, fig_line_marker, cb_mini_df, graph,
                   called>>

\* lines 33-34, one column
normalize ==
    /\ pc = "normalize"
    /\ \E r \in {normalize_column(df, col)} :
           /\ df' = r.df
           /\ error' = r.err
           /\ col' = IF r.ok THEN col + 1 ELSE col
           /\ pc' = IF ~r.ok THEN "failed"
                    ELSE IF col = Len(df.columns) THEN "sample"
                    ELSE "normalize"
    /\ UNCHANGED <<raw, starting_countries, years, start, end, country, year,
                   mini_df, fig_line_marker, cb_mini_df, graph, called>>

\* lines 42-54: sample raises ValueError when the table has fewer rows.
\* The sample is any SampleSize rows; it is kept in table order, its only
\* reader, isin, takes it as a set.
sample_countries ==
    /\ pc = "sample"
    /\ IF Len(df.country) < SampleSize
       THEN /\ pc' = "failed"
            /\ error' = "ValueError"
            /\ UNCHANGED <<starting_countries, country>>
       ELSE /\ \E S \in SUBSET (1..Len(df.country)) :
                /\ Cardinality(S) = SampleSize
                /\ starting_countries' = KeepAt(df.country, S)
            /\ country' = starting_countries'
            /\ pc' = "default_years"
            /\ UNCHANGED error
    /\ UNCHANGED <<raw, df, col, years, start, end, year, mini_df,
                   fig_line_marker, cb_mini_df, graph, called>>

\* lines 58-60
default_years ==
    /\ pc = "default_years"
    /\ years' = df.columns
    /\ start' \in 0..Floor(2 * Len(df.columns), 3)
    /\ end' = start' + Floor(Len(df.columns), 3)
    /\ pc' = "slider"
    /\ UNCHANGED <<raw, df, col, error, starting_countries, country, year,
                   mini_df, fig_line_marker, cb_mini_df, graph, called>>

\* lines 63-74: years[end] raises IndexError past the last year
build_slider ==
    /\ pc = "slider"
    /\ IF end >= Len(years)
       THEN /\ pc' = "failed"
            /\ error' = "IndexError"
            /\ UNCHANGED year
       ELSE /\ year' = <<years[start + 1], years[end + 1]>>
            /\ pc' = "initial_chart"
            /\ UNCHANGED error
    /\ UNCHANGED <<raw, df, col, starting_countries, years, start, end, country,
                   mini_df, fig_line_marker, cb_mini_df, graph, called>>

\* lines 84-113
initial_chart ==
    /\ pc = "initial_chart"
    /\ mini_df' = initial_mini_df(df, starting_countries, start, end)
    /\ fig_line_marker' = melt(mini_df')
    /\ graph' = fig_line_marker'
    /\ pc' = "serving"
    /\ UNCHANGED <<raw, df, col, error, starting_countries, years, start, end,
                   country, year, cb_mini_df, called>>

\* lines 135-166: the host calls update_graph with the values of both controls
callback(selected_countries, selected_years) ==
    \E r \in {update_graph(df, years, selected_countries, selected_years)} :
        /\ df' = r.df
        /\ cb_mini_df' = r.mini_df
        /\ graph' = Output(graph, r.figure)
        /\ called' = TRUE

\* the dropdown's value is set and the host calls the callback
change_country ==
    /\ pc = "serving"
    /\ \E c \in Selections(df) :
        /\ country' = c
        /\ callback(c, year)
    /\ UNCHANGED <<raw, col, pc, error, starting_countries, years, start, end,
                   year, mini_df, fig_line_marker>>

\* a handle of the range slider is set and the host calls the callback;
\* with the handles where they are, this is the call the host makes when
\* the page is loaded
change_year ==
    /\ pc = "serving"
    /\ \E y \in YearRanges(years, year) :
        /\ year' = y
        /\ callback(country, y)
    /\ UNCHANGED <<raw, col, pc, error, starting_countries, years, start, end,
                   country, mini_df, fig_line_marker>>

Next ==
    \/ read_csv
    \/ normalize
    \/ sample_countries
    \/ default_years
    \/ build_slider
    \/ initial_chart
    \/ change_country
    \/ change_year

Spec == Init /\ [][Next]_vars

----------------------------------------------------------------------------
(* Vocabulary of the properties *)

\* the cleaning loop has gone through every year column
Normalized == pc # "read_csv" /\ col > Len(df.columns)

\* the cleaning loop was stopped by an exception
NormalizationFailed == pc = "failed" /\ col <= Len(df.columns)

\* the canonical table of the file
CanonicalTable == normalize_from(ReadCsv(raw), 1).df

MinYear == years[1]
MaxYear == years[Len(years)]

InBounds(y) == MinYear <= y[1] /\ y[1] <= y[2] /\ y[2] <= MaxYear

\* the year of the table nearest to y
Clamp(y) == Max(MinYear, Min(y, MaxYear))

YearsFromTo(s, e) == [i \in 1..(e - s + 1) |-> s + i - 1]

RowOf(frame, c) == CHOOSE r \in 1..Len(frame.country) : frame.country[r] = c
ColumnOf(frame, y) == CHOOSE j \in 1..Len(frame.columns) : frame.columns[j] = y
CellOf(frame, c, y) == frame.values[RowOf(frame, c)][ColumnOf(frame, y)]

SupplyPos(c) == CHOOSE i \in 1..Len(country) : country[i] = c

\* digits "." digits "k", digits "k", "k", or digits
IsSuffixDecimal(s) ==
    /\ Len(s) >= 4
    /\ s[Len(s)] = "k"
    /\ \E p \in 2..(Len(s) - 2) :
        /\ s[p] = "."
        /\ IntOk(SubSeq(s, 1, p - 1))
        /\ IntOk(SubSeq(s, p + 1, Len(s) - 1))

MatchesGrammar(s) ==
    \/ IntOk(s)
    \/ s = <<"k">>
    \/ (Len(s) >= 2 /\ s[Len(s)] = "k" /\ IntOk(SubSeq(s, 1, Len(s) - 1)))
    \/ IsSuffixDecimal(s)

Coercible(cell) == cell.t \in {"int", "float"} \/ MatchesGrammar(cell.s)

----------------------------------------------------------------------------
(* Properties *)

\* C1: for a year range (s, e) within the table's years, update_graph keeps
\* exactly the year columns s..e with their cells, and exactly the rows of
\* the table whose country is selected; a selected country that is not in
\* the table is ignored.
C1_SelectionExact ==
    (pc = "serving" /\ called /\ InBounds(year)) =>
        /\ cb_mini_df.columns = YearsFromTo(year[1], year[2])
        /\ Range(cb_mini_df.country) = Range(country) \cap Range(df.country)
        /\ Len(cb_mini_df.country) = Cardinality(Range(cb_mini_df.country))
        /\ \A r \in 1..Len(cb_mini_df.country) : \A j \in 1..Len(cb_mini_df.columns) :
              cb_mini_df.values[r][j] =
                  CellOf(df, cb_mini_df.country[r], cb_mini_df.columns[j])

C1_Witness ==
    /\ pc = "serving" /\ called /\ InBounds(year)
    /\ MinYear < year[1] /\ year[2] < MaxYear
    /\ Unknown \in Range(country)
    /\ Len(cb_mini_df.country) = 1
    /\ Len(df.country) > 1

\* C2, as claimed: a cell text I "." F "k" is cleaned to
\* I * 1000 + (first digit of F) * 100.
C2_FirstFractionalDigitOnly ==
    Normalized =>
        \A r \in 1..Len(raw.values) : \A j \in 1..Len(raw.columns) :
            LET s == raw.values[r][j]
                p == CHOOSE q \in 1..Len(s) : s[q] = "."
            IN  IsSuffixDecimal(s) =>
                    df.values[r][j].n =
                        IntOf(SubSeq(s, 1, p - 1)) * 1000 + DigitVal(s[p + 1]) * 100

C4_OutOfRangeIsClamped ==
    (pc = "serving" /\ called /\ ~InBounds(year)
        /\ MinYear <= year[2] /\ year[1] <= MaxYear) =>
        cb_mini_df.columns = YearsFromTo(Clamp(year[1]), Clamp(year[2]))

\* C5: once the cleaning loop is through, the table is the canonical table
\* of the file in every state, whatever calls of update_graph came before.
C5_TableNeverChanges == Normalized => df = CanonicalTable

C5_Witness ==
    /\ pc = "serving" /\ called
    /\ Len(cb_mini_df.country) > 0
    /\ Len(cb_mini_df.country) < Len(df.country)
    /\ Len(cb_mini_df.columns) > 0
    /\ Len(cb_mini_df.columns) < Len(df.columns)

\* C6: the displayed chart is given by the canonical table and the current
\* values of the two controls alone: it plots countries of the current
\* selection only, and for a year range within the table's years it plots
\* one record for each selected country of the table and each year of the
\* range, with the canonical value, and nothing else.
C6_ChartFromLatestInputs ==
    pc = "serving" =>
        /\ \A k \in 1..Len(graph) : graph[k].country \in Range(country)
        /\ InBounds(year) =>
            \E canon \in {CanonicalTable} :
                LET shown == Range(country) \cap Range(canon.country)
                IN  /\ {<<graph[k].country, graph[k].year, graph[k].gdp_pcap.n>> :
                            k \in 1..Len(graph)}
                       = {<<c, y, CellOf(canon, c, y).n>> :
                            c \in shown, y \in year[1]..year[2]}
                    /\ Len(graph) = Cardinality(shown) * (year[2] - year[1] + 1)

C6_Witness ==
    /\ pc = "serving" /\ called
    /\ graph # <<>>
    /\ fig_line_marker # <<>>
    /\ year[1] > years[end + 1]
    /\ Range(country) # Range(starting_countries)

\* C7, as claimed: the cleaning fails exactly when some cell of the table
\* is neither an integer, nor a float, nor a text of the suffix grammar, and
\* the callback only ever runs on a table whose cells are all numbers.
C7_FailsExactlyOnUncoercibleCells ==
    /\ pc = "serving" =>
          \A r \in 1..Len(df.values) : \A j \in 1..Len(df.columns) :
              df.values[r][j].t \in {"int", "float"}
    /\ (Normalized \/ NormalizationFailed) =>
          (NormalizationFailed <=>
              \E r \in 1..Len(raw.values) : \E j \in 1..Len(raw.columns) :
                  ~Coercible(ReadCsv(raw).values[r][j]))

\* C8, as claimed: cleaning the cleaned table once more succeeds and gives
\* the same table.
C8_NormalizationIdempotent ==
    Normalized => normalize_from(df, 1) = [ok |-> TRUE, err |-> "none", df |-> df]

\* C9: the frame and the figure built while the module is imported are the
\* frame and the figure update_graph gives for the default countries and
\* the default year range.
C9_InitialChartIsCallbackChart ==
    pc = "serving" =>
        LET r == update_graph(df, years, starting_countries,
                              <<years[start + 1], years[end + 1]>>)
        IN  mini_df = r.mini_df /\ fig_line_marker = r.figure

C9_Witness ==
    /\ pc = "serving" /\ ~called
    /\ graph = fig_line_marker
    /\ start > 0
    /\ Len(mini_df.columns) > 0
    /\ Len(mini_df.columns) < Len(df.columns)

\* C10, as claimed: the default end index is a position of the year
\* columns, at or after the start index, and building the slider never
\* indexes past the last year.
C10_DefaultRangeInsideTable ==
    /\ pc = "slider" => (0 <= start /\ start <= end /\ end <= Len(years) - 1)
    /\ error # "IndexError"

====
